---- MODULE Spec2Model ----
(***************************************************************************)
(* Model of rs-bench (src/src/main.rs): the Reed-Solomon encode/decode     *)
(* throughput harness.  The harness is single-threaded; pc is the position *)
(* of main() inside encode_decode_benchmark.                               *)
(*                                                                         *)
(* A byte slice (&[u8]) is a view [start, len] into max_data; the random   *)
(* contents of max_data are a function of a seed chosen at generation.     *)
(* The erasure-coding engine (crate reed_solomon_simd) is not part of the  *)
(* repository; its operations follow the collaborator contract of the      *)
(* specification, section 6.                                               *)
(*                                                                         *)
(* TLC integers are 32-bit, and the padded size of the 2 GiB entry is      *)
(* above 2^31 - 1, so the factor 1024 of the size list is the bound Ki.    *)
(* Durations are whole clock ticks, TicksPerSec ticks to the second.       *)
(***************************************************************************)
EXTENDS Integers, Sequences, FiniteSets, TLC

\* ---------------------------------------------------------------- bounds
Ki == 32            \* stands for the factor 1024 of main.rs:21-23
MaxSeed == 2        \* number of distinct random buffers considered
MaxDur == 1         \* largest elapsed time of one timed region, in ticks
TicksPerSec == 2    \* clock resolution: ticks per second
MaxS == 200         \* PlanSpec: largest logical size drawn
MaxN == 4           \* PlanSpec: largest original-shard count drawn

\* ------------------------------------------------------ program constants
Align == 64         \* main.rs:15, shard alignment
Trials == 3         \* main.rs:69, trials per configuration

VARIABLES
    pc,                     \* position in encode_decode_benchmark
    max_data,               \* the generated buffer: [len, seed]
    si, ci,                 \* 1-based positions of the two for loops
    label, size,            \* current entry of sizes
    num_original_shards,    \* current entry of shard_configs
    num_recovery_shards,
    padded_size,
    data,                   \* &max_data[..padded_size], a view
    original,               \* Vec<&[u8]>, a sequence of views
    trial,                  \* iterations of `for _ in 0..3` completed
    total_encode_duration,  \* in ticks
    total_decode_duration,  \* in ticks
    encoder, result, recovery, decoder,
    timer,                  \* the Instant that is running: none/encode/decode
    ops,                    \* statements executed in the current trial, in order
    printed                 \* lines written to stdout by the current configuration

vars == <<pc, max_data, si, ci, label, size, num_original_shards,
          num_recovery_shards, padded_size, data, original, trial,
          total_encode_duration, total_decode_duration, encoder, result,
          recovery, decoder, timer, ops, printed>>

\* ------------------------------------------------------------- helpers
Min(a, b) == IF a <= b THEN a ELSE b

Max(a, b) == IF a >= b THEN a ELSE b

SeqMax(s) == CHOOSE m \in {s[i] : i \in 1..Len(s)} : \A i \in 1..Len(s) : s[i] <= m

View(start, len) == [start |-> start, len |-> len]

NoView == View(0, 0)

NoData == [len |-> 0, seed |-> 0]

None == [kind |-> "none"]

\* ------------------------------------------------ the compiled-in matrix
sizes ==
    << <<"1MB", Ki * Ki>>,
       <<"1GB", Ki * Ki * Ki>>,
       <<"3GB", 2 * Ki * Ki * Ki>> >>

shard_configs ==
    << <<21, 10>>, <<67, 33>>, <<201, 100>>, <<667, 333>> >>

\* ------------------------------------------------- calculate_padded_size
\* Mutants of calculate_padded_size: plausible slips of lines 14-16.
calculate_padded_size_floor(sz, n) ==
    LET base_shard_size == sz \div n
        shard_size == ((base_shard_size + 63) \div Align) * Align
    IN  shard_size * n

calculate_padded_size_total(sz, n) ==
    ((sz + 63) \div Align) * Align

calculate_padded_size_unaligned(sz, n) ==
    LET base_shard_size == (sz + n - 1) \div n
    IN  base_shard_size * n

calculate_padded_size(sz, n) ==
    LET base_shard_size == (sz + n - 1) \div n
        shard_size == ((base_shard_size + 63) \div Align) * Align
    IN  shard_size * n

\* ------------------------------------------------- generate_random_data
\* The byte at offset off of a buffer generated from seed.
DataByte(seed, off) == (seed * 101 + off * 37 + (off \div 7)) % 256

generate_random_data(len, seed) == [len |-> len, seed |-> seed]

\* The bytes a view of buffer buf denotes.
Bytes(buf, v) == [j \in 1..v.len |-> DataByte(buf.seed, v.start + j - 1)]

\* Length of the buffer generated at lines 34-48.
\* Mutant of MaxPaddedSize: the largest logical size, without its padding.
MaxPaddedSize_unpadded ==
    SeqMax([s \in 1..Len(sizes) |-> sizes[s][2]])

MaxPaddedSize ==
    SeqMax([s \in 1..Len(sizes) |->
        SeqMax([c \in 1..Len(shard_configs) |->
            calculate_padded_size(sizes[s][2], shard_configs[c][1])])])

\* ------------------------------------------------------- slice::chunks
\* data.chunks(cs) for cs > 0: consecutive views of cs bytes, the last one
\* shorter when cs does not divide the length.
Chunks(v, cs) ==
    [i \in 1..((v.len + cs - 1) \div cs) |->
        View(v.start + (i - 1) * cs, Min(cs, v.len - (i - 1) * cs))]

\* ------------------------------------------------------------------ f64
\* An f64 is a non-negative rational num/den, or what a division by zero
\* gives: inf (x / 0.0, x > 0) or nan (0.0 / 0.0).
F(num, den) == [kind |-> "finite", num |-> num, den |-> den]

Inf == [kind |-> "inf"]

NaN == [kind |-> "nan"]

FDiv(a, b) ==
    IF a.kind = "nan" \/ b.kind = "nan" THEN NaN
    ELSE IF a.kind = "inf" THEN (IF b.kind = "inf" THEN NaN ELSE Inf)
    ELSE IF b.kind = "inf" THEN F(0, 1)
    ELSE IF b.num = 0 THEN (IF a.num = 0 THEN NaN ELSE Inf)
    ELSE F(a.num * b.den, a.den * b.num)

\* Duration::as_secs_f64 of a duration of d ticks.
as_secs_f64(d) == F(d, TicksPerSec)

\* The literal 1_073_741_824.0 of lines 113-114.
GiB == F(Ki * Ki * Ki, 1)

\* ------------------------------------------------- erasure-coding engine
Err == [kind |-> "err"]

ReedSolomonEncoder_new(original_count, recovery_count, shard_bytes, id) ==
    IF original_count = 0 \/ recovery_count = 0 \/ shard_bytes = 0
       \/ shard_bytes % Align # 0
    THEN Err
    ELSE [kind |-> "encoder", id |-> id, original_count |-> original_count,
          recovery_count |-> recovery_count, shard_bytes |-> shard_bytes,
          shards |-> <<>>]

Encoder_add_original_shard(enc, shard) ==
    IF shard.len # enc.shard_bytes \/ Len(enc.shards) >= enc.original_count
    THEN Err
    ELSE [enc EXCEPT !.shards = Append(@, shard)]

\* The recovery shards are a function of the encoder's input; a recovery
\* shard is named by the encoder that produced it and its index.
Encoder_encode(enc) ==
    IF Len(enc.shards) < enc.original_count
    THEN Err
    ELSE [kind |-> "result",
          shards |-> [i \in 1..enc.recovery_count |->
                         [enc |-> enc.id, index |-> i - 1, len |-> enc.shard_bytes]]]

ReedSolomonDecoder_new(original_count, recovery_count, shard_bytes) ==
    IF original_count = 0 \/ recovery_count = 0 \/ shard_bytes = 0
       \/ shard_bytes % Align # 0
    THEN Err
    ELSE [kind |-> "decoder", original_count |-> original_count,
          recovery_count |-> recovery_count, shard_bytes |-> shard_bytes,
          original |-> <<>>, recovery |-> <<>>]

\* original and recovery are the (index, shard) pairs received, in order.
Decoder_add_original_shard(dec, index, shard) ==
    IF index >= dec.original_count \/ shard.len # dec.shard_bytes
    THEN Err
    ELSE [dec EXCEPT !.original = Append(@, <<index, shard>>)]

Decoder_add_recovery_shard(dec, index, shard) ==
    IF index >= dec.recovery_count \/ shard.len # dec.shard_bytes
    THEN Err
    ELSE [dec EXCEPT !.recovery = Append(@, <<index, shard>>)]

Decoder_decode(dec) ==
    IF Len(dec.original) + Len(dec.recovery) < dec.original_count
    THEN Err
    ELSE [kind |-> "restored",
          indices |-> (0..(dec.original_count - 1))
                          \ {dec.original[k][1] : k \in 1..Len(dec.original)}]

\* ------------------------------------------------- the harness's loops
\* for shard in &original { encoder.add_original_shard(shard).unwrap(); }
\* The k-th call sees the encoder that the first k - 1 calls left; the loop
\* ends in Err as soon as one call fails.
AddOriginalShards(enc, shards) ==
    LET after(k) == [enc EXCEPT !.shards = @ \o SubSeq(shards, 1, k)]
    IN  IF \E k \in 1..Len(shards) :
               Encoder_add_original_shard(after(k - 1), shards[k]).kind = "err"
        THEN Err
        ELSE after(Len(shards))

\* original.iter().enumerate().skip(num_recovery_shards): the pairs
\* (i, shard) with i >= num_recovery_shards, in order.
\* (mutant of SurvivingOriginals: skip(r).enumerate())
SurvivingOriginals_reindexed(shards, r) ==
    [k \in 1..Max(Len(shards) - r, 0) |-> <<k - 1, shards[r + k]>>]

SurvivingOriginals(shards, r) ==
    [k \in 1..Max(Len(shards) - r, 0) |-> <<r + k - 1, shards[r + k]>>]

\* recovery.iter().enumerate()
Enumerate(shards) == [k \in 1..Len(shards) |-> <<k - 1, shards[k]>>]

AddDecoderOriginals(dec, pairs) ==
    LET after(k) == [dec EXCEPT !.original = @ \o SubSeq(pairs, 1, k)]
    IN  IF \E k \in 1..Len(pairs) :
               Decoder_add_original_shard(after(k - 1), pairs[k][1], pairs[k][2]).kind = "err"
        THEN Err
        ELSE after(Len(pairs))

AddDecoderRecovery(dec, pairs) ==
    LET after(k) == [dec EXCEPT !.recovery = @ \o SubSeq(pairs, 1, k)]
    IN  IF \E k \in 1..Len(pairs) :
               Decoder_add_recovery_shard(after(k - 1), pairs[k][1], pairs[k][2]).kind = "err"
        THEN Err
        ELSE after(Len(pairs))

\* ------------------------------------------------------------- the state
configVars == <<label, size, num_original_shards, num_recovery_shards>>

loopVars == <<si, ci>>

engineVars == <<encoder, result, recovery, decoder>>

totalVars == <<total_encode_duration, total_decode_duration>>

shard_size == padded_size \div num_original_shards

Init ==
    /\ pc = "start"
    /\ max_data = NoData
    /\ si = 1 /\ ci = 1
    /\ label = "" /\ size = 0
    /\ num_original_shards = 0 /\ num_recovery_shards = 0
    /\ padded_size = 0
    /\ data = NoView
    /\ original = <<>>
    /\ trial = 0
    /\ total_encode_duration = 0 /\ total_decode_duration = 0
    /\ encoder = None /\ result = None /\ recovery = <<>> /\ decoder = None
    /\ timer = "none"
    /\ ops = <<>>
    /\ printed = <<>>

\* Lines 34-48: the buffer is generated once, before the loops.
GenerateMaxData ==
    /\ pc = "start"
    /\ \E seed \in 1..MaxSeed :
           max_data' = generate_random_data(MaxPaddedSize, seed)
    /\ pc' = "loop"
    /\ UNCHANGED <<loopVars, configVars, padded_size, data, original, trial,
                   totalVars, engineVars, timer, ops, printed>>

\* Lines 50-53: the heads of the two for loops, and the padded size.
NextConfig ==
    /\ pc = "loop"
    /\ IF si > Len(sizes)
       THEN /\ pc' = "done"
            /\ UNCHANGED <<configVars, padded_size, printed>>
       ELSE /\ label' = sizes[si][1]
            /\ size' = sizes[si][2]
            /\ num_original_shards' = shard_configs[ci][1]
            /\ num_recovery_shards' = shard_configs[ci][2]
            /\ padded_size' = calculate_padded_size(sizes[si][2], shard_configs[ci][1])
            /\ printed' = <<>>
            /\ pc' = "slice"
    /\ UNCHANGED <<max_data, loopVars, data, original, trial, totalVars,
                   engineVars, timer, ops>>

\* Line 55: &max_data[..padded_size] panics when the range is out of bounds.
SliceData ==
    /\ pc = "slice"
    /\ IF padded_size > max_data.len
       THEN pc' = "panic" /\ UNCHANGED data
       ELSE pc' = "chunks" /\ data' = View(0, padded_size)
    /\ UNCHANGED <<max_data, loopVars, configVars, padded_size, original, trial,
                   totalVars, engineVars, timer, ops, printed>>

\* Line 56: chunks panics on a chunk size of 0.
Partition ==
    /\ pc = "chunks"
    /\ IF shard_size = 0
       THEN pc' = "panic" /\ UNCHANGED original
       ELSE pc' = "check" /\ original' = Chunks(data, shard_size)
    /\ UNCHANGED <<max_data, loopVars, configVars, padded_size, data, trial,
                   totalVars, engineVars, timer, ops, printed>>

\* The step of the two for loops: the next shard config, then the next size.
Advance ==
    IF ci < Len(shard_configs)
    THEN ci' = ci + 1 /\ si' = si
    ELSE ci' = 1 /\ si' = si + 1

\* Lines 58-67: a shard-count mismatch prints the diagnostic and continues.
CheckShardCount ==
    /\ pc = "check"
    /\ IF Len(original) # num_original_shards
       THEN /\ printed' = Append(printed,
                  [kind |-> "too_small", num_original |-> num_original_shards,
                   label |-> label])
            /\ Advance
            /\ pc' = "loop"
            /\ UNCHANGED <<trial, totalVars>>
       ELSE /\ total_encode_duration' = 0
            /\ total_decode_duration' = 0
            /\ trial' = 0
            /\ pc' = "trial"
            /\ UNCHANGED <<loopVars, printed>>
    /\ UNCHANGED <<max_data, configVars, padded_size, data, original,
                   engineVars, timer, ops>>

\* Line 69: for _ in 0..3.
TrialHead ==
    /\ pc = "trial"
    /\ IF trial < Trials
       THEN pc' = "enc_new" /\ ops' = <<>>
       ELSE pc' = "report" /\ UNCHANGED ops
    /\ UNCHANGED <<max_data, loopVars, configVars, padded_size, data, original,
                   trial, totalVars, engineVars, timer, printed>>

\* ------------------------------------------------------------ one trial
\* Lines 72-77: ReedSolomonEncoder::new(...).unwrap().
NewEncoder ==
    /\ pc = "enc_new"
    /\ LET e == ReedSolomonEncoder_new(num_original_shards, num_recovery_shards,
                                       shard_size, trial)
       IN  /\ encoder' = e
           /\ pc' = IF e.kind = "err" THEN "panic" ELSE "enc_add"
    /\ ops' = Append(ops, "encoder_new")
    /\ UNCHANGED <<max_data, loopVars, configVars, padded_size, data, original,
                   trial, totalVars, result, recovery, decoder, timer, printed>>

\* Lines 79-81: every original shard is added, in order.
AddEncoderShards ==
    /\ pc = "enc_add"
    /\ LET e == AddOriginalShards(encoder, original)
       IN  /\ encoder' = e
           /\ pc' = IF e.kind = "err" THEN "panic" ELSE "enc_start"
    /\ ops' = Append(ops, "encoder_add_original_shards")
    /\ UNCHANGED <<max_data, loopVars, configVars, padded_size, data, original,
                   trial, totalVars, result, recovery, decoder, timer, printed>>

\* Line 83: let start_encode = Instant::now().
StartEncodeTimer ==
    /\ pc = "enc_start"
    /\ timer' = "encode"
    /\ ops' = Append(ops, "start_encode")
    /\ pc' = "enc_encode"
    /\ UNCHANGED <<max_data, loopVars, configVars, padded_size, data, original,
                   trial, totalVars, engineVars, printed>>

\* Line 84: let result = encoder.encode().unwrap().
Encode ==
    /\ pc = "enc_encode"
    /\ LET r == Encoder_encode(encoder)
       IN  /\ result' = r
           /\ pc' = IF r.kind = "err" THEN "panic" ELSE "enc_collect"
    /\ ops' = Append(ops, "encode")
    /\ UNCHANGED <<max_data, loopVars, configVars, padded_size, data, original,
                   trial, totalVars, encoder, recovery, decoder, timer, printed>>

\* Line 85: let recovery: Vec<_> = result.recovery_iter().collect().
CollectRecovery ==
    /\ pc = "enc_collect"
    /\ recovery' = result.shards
    /\ ops' = Append(ops, "collect_recovery")
    /\ pc' = "enc_stop"
    /\ UNCHANGED <<max_data, loopVars, configVars, padded_size, data, original,
                   trial, totalVars, encoder, result, decoder, timer, printed>>

\* Lines 86-87: the elapsed time, any number of ticks the clock may return.
StopEncodeTimer ==
    /\ pc = "enc_stop"
    /\ \E duration_encode \in 0..MaxDur :
           total_encode_duration' = total_encode_duration + duration_encode
    /\ timer' = "none"
    /\ ops' = Append(ops, "stop_encode")
    /\ pc' = "dec_new"
    /\ UNCHANGED <<max_data, loopVars, configVars, padded_size, data, original,
                   trial, total_decode_duration, engineVars, printed>>

\* Lines 90-95: ReedSolomonDecoder::new(...).unwrap().
NewDecoder ==
    /\ pc = "dec_new"
    /\ LET d == ReedSolomonDecoder_new(num_original_shards, num_recovery_shards,
                                       shard_size)
       IN  /\ decoder' = d
           /\ pc' = IF d.kind = "err" THEN "panic" ELSE "dec_add_original"
    /\ ops' = Append(ops, "decoder_new")
    /\ UNCHANGED <<max_data, loopVars, configVars, padded_size, data, original,
                   trial, totalVars, encoder, result, recovery, timer, printed>>

\* Lines 98-100: the original shards from index num_recovery_shards on.
AddDecoderOriginalShards ==
    /\ pc = "dec_add_original"
    /\ LET d == AddDecoderOriginals(
                    decoder, SurvivingOriginals(original, num_recovery_shards))
       IN  /\ decoder' = d
           /\ pc' = IF d.kind = "err" THEN "panic" ELSE "dec_add_recovery"
    /\ ops' = Append(ops, "decoder_add_original_shards")
    /\ UNCHANGED <<max_data, loopVars, configVars, padded_size, data, original,
                   trial, totalVars, encoder, result, recovery, timer, printed>>

\* Lines 101-103: every recovery shard, under its position.
AddDecoderRecoveryShards ==
    /\ pc = "dec_add_recovery"
    /\ LET d == AddDecoderRecovery(decoder, Enumerate(recovery))
       IN  /\ decoder' = d
           /\ pc' = IF d.kind = "err" THEN "panic" ELSE "dec_start"
    /\ ops' = Append(ops, "decoder_add_recovery_shards")
    /\ UNCHANGED <<max_data, loopVars, configVars, padded_size, data, original,
                   trial, totalVars, encoder, result, recovery, timer, printed>>

\* Line 105: let start_decode = Instant::now().
StartDecodeTimer ==
    /\ pc = "dec_start"
    /\ timer' = "decode"
    /\ ops' = Append(ops, "start_decode")
    /\ pc' = "dec_decode"
    /\ UNCHANGED <<max_data, loopVars, configVars, padded_size, data, original,
                   trial, totalVars, engineVars, printed>>

\* Line 106: decoder.decode().unwrap(); the restored shards are dropped.
Decode ==
    /\ pc = "dec_decode"
    /\ pc' = IF Decoder_decode(decoder).kind = "err" THEN "panic" ELSE "dec_stop"
    /\ ops' = Append(ops, "decode")
    /\ UNCHANGED <<max_data, loopVars, configVars, padded_size, data, original,
                   trial, totalVars, engineVars, timer, printed>>

\* Lines 107-109: the elapsed time; the trial's locals go out of scope.
StopDecodeTimer ==
    /\ pc = "dec_stop"
    /\ \E duration_decode \in 0..MaxDur :
           total_decode_duration' = total_decode_duration + duration_decode
    /\ timer' = "none"
    /\ ops' = Append(ops, "stop_decode")
    /\ encoder' = None /\ result' = None /\ recovery' = <<>> /\ decoder' = None
    /\ trial' = trial + 1
    /\ pc' = "trial"
    /\ UNCHANGED <<max_data, loopVars, configVars, padded_size, data, original,
                   total_encode_duration, printed>>

\* Lines 111-117: the averages, the throughputs and the two result lines.
ResultLine(stage, total) ==
    LET avg_duration == FDiv(as_secs_f64(total), F(Trials, 1))
        throughput == FDiv(FDiv(F(size, 1), avg_duration), GiB)
    IN  [kind |-> stage, label |-> label, num_original |-> num_original_shards,
         num_recovery |-> num_recovery_shards, avg_duration |-> avg_duration,
         throughput |-> throughput]

Report ==
    /\ pc = "report"
    /\ printed' = printed \o <<ResultLine("encode", total_encode_duration),
                               ResultLine("decode", total_decode_duration)>>
    /\ Advance
    /\ pc' = "loop"
    /\ UNCHANGED <<max_data, configVars, padded_size, data, original, trial,
                   totalVars, engineVars, timer, ops>>

Next ==
    \/ GenerateMaxData
    \/ NextConfig
    \/ SliceData
    \/ Partition
    \/ CheckShardCount
    \/ TrialHead
    \/ NewEncoder
    \/ AddEncoderShards
    \/ StartEncodeTimer
    \/ Encode
    \/ CollectRecovery
    \/ StopEncodeTimer
    \/ NewDecoder
    \/ AddDecoderOriginalShards
    \/ AddDecoderRecoveryShards
    \/ StartDecodeTimer
    \/ Decode
    \/ StopDecodeTimer
    \/ Report

Spec == Init /\ [][Next]_vars

\* ---------------------------------------------------------------- PlanSpec
\* The planner and the partitioner on every logical size and shard count of
\* a bounded range: lines 53-56 run on a one-entry matrix (size, N).
PlanInit ==
    /\ pc = "plan"
    /\ max_data = NoData
    /\ si = 1 /\ ci = 1
    /\ label = ""
    /\ size \in 1..MaxS
    /\ num_original_shards \in 1..MaxN
    /\ num_recovery_shards = 0
    /\ padded_size = 0
    /\ data = NoView
    /\ original = <<>>
    /\ trial = 0
    /\ total_encode_duration = 0 /\ total_decode_duration = 0
    /\ encoder = None /\ result = None /\ recovery = <<>> /\ decoder = None
    /\ timer = "none"
    /\ ops = <<>>
    /\ printed = <<>>

PlanPad ==
    /\ pc = "plan"
    /\ padded_size' = calculate_padded_size(size, num_original_shards)
    /\ \E seed \in 1..MaxSeed :
           max_data' = generate_random_data(
                           calculate_padded_size(size, num_original_shards), seed)
    /\ pc' = "slice"
    /\ UNCHANGED <<loopVars, configVars, data, original, trial, totalVars,
                   engineVars, timer, ops, printed>>

PlanNext ==
    \/ PlanPad
    \/ SliceData
    \/ Partition

PlanSpec == PlanInit /\ [][PlanNext]_vars

\* ------------------------------------------------------------------ claims
RECURSIVE Concat(_, _)
Concat(buf, shards) ==
    IF shards = <<>> THEN <<>>
    ELSE Bytes(buf, Head(shards)) \o Concat(buf, Tail(shards))

\* C1 (PlanSpec): for every S >= 1 and N >= 1 the padded size is a multiple
\* of N, the shard size paddedSize / N is a multiple of 64, and the padded
\* size is at least S.
C1_PaddingInvariant ==
    pc # "plan" =>
        /\ padded_size % num_original_shards = 0
        /\ (padded_size \div num_original_shards) % 64 = 0
        /\ padded_size >= size

\* The padding case: the size is not a multiple of N and more than one
\* alignment unit goes to each shard.
C1_Witness ==
    /\ pc = "slice"
    /\ num_original_shards > 1
    /\ size % num_original_shards # 0
    /\ padded_size \div num_original_shards > 64
    /\ padded_size > size

\* C2 (PlanSpec): partitioning the first paddedSize bytes into chunks of
\* paddedSize / N yields exactly N shards, each of that length, shard i being
\* bytes [i*shardSize, (i+1)*shardSize), and their concatenation is the buffer.
C2_PartitionInvariant ==
    pc = "check" =>
        /\ Len(original) = num_original_shards
        /\ \A i \in 1..Len(original) :
               /\ original[i].len = padded_size \div num_original_shards
               /\ original[i].start = (i - 1) * (padded_size \div num_original_shards)
        /\ \A i \in 1..Len(original) : \A j \in 1..Len(original) :
               i < j => original[i].start + original[i].len <= original[j].start
        /\ Concat(max_data, original) = Bytes(max_data, View(0, padded_size))

C2_Witness ==
    /\ pc = "check"
    /\ Len(original) > 2
    /\ original[Len(original)].len > 64
    /\ size % (64 * num_original_shards) # 0

\* What the decoder has been given once both loops of lines 98-103 are done.
Supplied == pc \in {"dec_start", "dec_decode"}

SuppliedOriginalIndices == {decoder.original[k][1] : k \in 1..Len(decoder.original)}

SuppliedRecoveryIndices == {decoder.recovery[k][1] : k \in 1..Len(decoder.recovery)}

\* C3 (Spec): in every trial of every configuration (N, R) the decoder is given,
\* before decode, no original shard 0..R-1, every original shard R..N-1 under
\* its own index with the contents of partition shard i, and every recovery
\* shard 0..R-1 of this trial's encode under its own index: N shards in all.
C3_RecoverableSubset ==
    Supplied =>
        /\ SuppliedOriginalIndices = num_recovery_shards..(num_original_shards - 1)
        /\ \A k \in 1..Len(decoder.original) :
               LET i == decoder.original[k][1]
                   shard == decoder.original[k][2]
               IN  /\ shard = original[i + 1]
                   /\ shard = View(i * shard_size, shard_size)
        /\ Len(decoder.original) = num_original_shards - num_recovery_shards
        /\ SuppliedRecoveryIndices = 0..(num_recovery_shards - 1)
        /\ \A k \in 1..Len(decoder.recovery) :
               LET i == decoder.recovery[k][1]
                   shard == decoder.recovery[k][2]
               IN  /\ shard.index = i
                   /\ shard.enc = trial
                   /\ shard = result.shards[i + 1]
        /\ Len(decoder.recovery) = num_recovery_shards
        /\ Len(decoder.original) + Len(decoder.recovery) = num_original_shards

\* The last trial of the configuration (667, 333) of the largest size, at decode.
C3_Witness ==
    /\ pc = "dec_decode"
    /\ num_original_shards = 667 /\ num_recovery_shards = 333
    /\ si = Len(sizes)
    /\ trial = Trials - 1
    /\ Len(decoder.original) = 334
    /\ Len(decoder.recovery) = 333

\* C6 (Spec): over the whole matrix and every trial no engine call violates
\* the engine contract, so the run never aborts: non-zero counts and a shard
\* size that is a multiple of 64 at construction, exactly num_original shards
\* of shardSize bytes before encode, in-range indices and shardSize lengths at
\* the decoder, and at least num_original shards before decode.
C6_EngineContract ==
    /\ pc # "panic"
    /\ encoder # None =>
           /\ encoder.kind = "encoder"
           /\ encoder.original_count = num_original_shards
           /\ encoder.recovery_count = num_recovery_shards
           /\ encoder.original_count > 0 /\ encoder.recovery_count > 0
           /\ encoder.shard_bytes > 0 /\ encoder.shard_bytes % 64 = 0
           /\ \A k \in 1..Len(encoder.shards) :
                  encoder.shards[k].len = encoder.shard_bytes
    /\ pc \in {"enc_start", "enc_encode"} =>
           Len(encoder.shards) = num_original_shards
    /\ decoder # None =>
           /\ decoder.kind = "decoder"
           /\ decoder.original_count > 0 /\ decoder.recovery_count > 0
           /\ decoder.shard_bytes > 0 /\ decoder.shard_bytes % 64 = 0
           /\ \A k \in 1..Len(decoder.original) :
                  /\ decoder.original[k][1] < num_original_shards
                  /\ decoder.original[k][2].len = decoder.shard_bytes
           /\ \A k \in 1..Len(decoder.recovery) :
                  /\ decoder.recovery[k][1] < num_recovery_shards
                  /\ decoder.recovery[k][2].len = decoder.shard_bytes
    /\ Supplied =>
           Len(decoder.original) + Len(decoder.recovery) >= num_original_shards

\* The whole matrix has run: the last configuration has reported.
C6_Witness ==
    /\ pc = "done"
    /\ si = Len(sizes) + 1
    /\ Len(printed) = 2
    /\ printed[2].kind = "decode"
    /\ printed[2].num_original = 667

\* C7 (Spec): the buffer is generated once, before the configuration loop, at
\* least as long as the padded size of every (size, shard config) pair, so
\* every prefix of padded_size bytes is in bounds; it is never written again.
C7_BufferInvariant ==
    /\ [](max_data # NoData =>
            \A s \in 1..Len(sizes) : \A c \in 1..Len(shard_configs) :
                max_data.len >= calculate_padded_size(sizes[s][2], shard_configs[c][1]))
    /\ [](pc \notin {"start", "loop", "done"} => padded_size <= max_data.len)
    /\ [](data # NoView => data.start + data.len <= max_data.len)
    /\ [][pc # "start" => max_data' = max_data]_vars
    /\ [](pc # "start" <=> max_data # NoData)

\* The configuration that needs the whole buffer has taken its slice.
C7_Witness ==
    /\ pc = "chunks"
    /\ data = View(0, max_data.len)
    /\ max_data.len > size

\* The size a label names, in binary units.
LabelBytes(l) ==
    CASE l = "1MB" -> 1 * Ki * Ki
      [] l = "1GB" -> 1 * Ki * Ki * Ki
      [] l = "3GB" -> 3 * Ki * Ki * Ki
      [] OTHER -> 0

\* C4 (Spec): after every decode, outside the timed region and before the
\* configuration's result is reported, the harness compares every
\* reconstructed shard with the source buffer.
C4_RestoredCompared ==
    pc = "report" =>
        \E i \in 1..Len(ops) : \E j \in 1..Len(ops) :
            /\ i < j
            /\ ops[i] = "stop_decode"
            /\ ops[j] = "compare_restored"

\* C5 (Spec): between starting and stopping the encode timer the harness runs
\* the engine's encode call and nothing else.
C5_EncodeTimedAlone ==
    \A i \in 1..Len(ops) : \A j \in 1..Len(ops) : \A k \in 1..Len(ops) :
        (i < j /\ j < k /\ ops[i] = "start_encode" /\ ops[k] = "stop_encode")
            => ops[j] = "encode"

\* C9 (Spec): both throughputs of every reported configuration are finite and
\* greater than zero, the average durations they divide by being non-zero,
\* whatever non-negative durations the clock returns.
C9_ThroughputPositive ==
    \A n \in 1..Len(printed) :
        printed[n].kind \in {"encode", "decode"} =>
            /\ printed[n].avg_duration.kind = "finite"
            /\ printed[n].avg_duration.num > 0
            /\ printed[n].throughput.kind = "finite"
            /\ printed[n].throughput.num > 0

\* C10 (Spec): the logical size that is padded, sharded and used as payload is
\* the size the entry's label names in binary units.
C10_LabelNamesSize ==
    pc \notin {"start", "plan"} => size = LabelBytes(label)

====
